---- MODULE Spec2Model ----
(***************************************************************************)
(* A model of lsst.obs.monocam.MonocamMapper (monocamMapper.py): the       *)
(* construction of the mapper, the derivation of exposure identifiers,     *)
(* the validation of data identifiers, the raw read with header repair     *)
(* and the standardization of calibration frames.                          *)
(***************************************************************************)
EXTENDS Integers, Sequences, FiniteSets, TLC

VARIABLES
    dataId,        \* the data identifier object the caller holds (a dict, mutated in place)
    validateRet,   \* outcome of the last validate call on dataId
    issued,        \* <<dataId, id>> pairs returned so far by bypass_ccdExposureId
    idRet,         \* outcome of the last bypass_ccdExposureId / _bits call
    calibrations,  \* self.calibrations: dataset name -> declared python type of the mapping
    calibRet,      \* outcome of the last std_<calib> / standardizeCalib call
    rawRet,        \* outcome of the last bypass_raw / bypass_raw_md call (or their amp aliases)
    mapper,        \* the last MonocamMapper(inputPolicy, **kwargs) call: arguments, steps, instance
    filterCatalog  \* the process-wide filter catalog of afw: name -> definition

vars ==
    <<dataId, validateRet, issued, idRet, calibrations, calibRet, rawRet, mapper,
      filterCatalog>>

idVars == <<dataId, validateRet, issued, idRet>>

calibVars == <<calibrations, calibRet>>

rawVars == <<rawRet>>

ctorVars == <<mapper, filterCatalog>>

----------------------------------------------------------------------------
(* MonocamMapper.__init__(inputPolicy=None, **kwargs).  The steps of the   *)
(* constructor act in turn on a record of the construction: status is      *)
(* "running" until a step raises, events lists the steps that have         *)
(* completed.                                                              *)

ParamNames == {"doFootprints", "root"}

ParamValues == {"/a", "/b"}

\* a dict of keyword arguments, or the parameters of a policy
Bundles == UNION {[ks -> ParamValues] : ks \in SUBSET ParamNames}

NoPolicy == [present |-> FALSE, params |-> <<>>]

InputPolicies == {NoPolicy} \cup {[present |-> TRUE, params |-> b] : b \in Bundles}

keys ==
    [visit |-> "int", ccd |-> "int", filter |-> "str", date |-> "str", expTime |-> "float",
     object |-> "str"]

KeyedMappings == {"raw", "raw_amp", "postISRCCD", "calexp", "src", "icSrc", "srcMatch"}

filterIdMap == [u |-> 0, g |-> 1, r |-> 2, i |-> 3, z |-> 4, y |-> 5, i2 |-> 5]

\* afwImageUtils.defineFilter(name, lambdaEff, alias): wavelengths in 1/100 nm
LsstFilters ==
    [u    |-> [lambdaEff |-> 36459, alias |-> {}],
     g    |-> [lambdaEff |-> 47631, alias |-> {"SDSSG"}],
     r    |-> [lambdaEff |-> 61942, alias |-> {"SDSSR"}],
     i    |-> [lambdaEff |-> 75206, alias |-> {"SDSSI"}],
     z    |-> [lambdaEff |-> 86685, alias |-> {"SDSSZ"}],
     y    |-> [lambdaEff |-> 97168, alias |-> {"y4"}],
     NONE |-> [lambdaEff |-> 0, alias |-> {"no_filter", "OPEN"}]]

NoMapper ==
    [status |-> "none", events |-> <<>>, policyPresent |-> FALSE, inputPolicy |-> NoPolicy,
     kwargs |-> <<>>, doFootprints |-> FALSE, forwarded |-> <<>>, baseCalled |-> FALSE,
     dbRoot |-> "",
     keyDicts |-> <<>>, filterIdMap |-> <<>>, filters |-> <<>>]

\* the call, before its first statement
Called0(policyPresent, inputPolicy, kwargs) ==
    [NoMapper EXCEPT !.status = "running", !.policyPresent = policyPresent,
                     !.inputPolicy = inputPolicy, !.kwargs = kwargs, !.forwarded = kwargs]

Done(c, event) == [c EXCEPT !.events = Append(@, event)]

\* pexPolicy.DefaultPolicyFile and pexPolicy.Policy: raise where the resource is missing
LoadPolicy(c) ==
    IF c.status # "running" THEN c
    ELSE IF ~c.policyPresent THEN [c EXCEPT !.status = "PolicyError"]
    ELSE Done(c, "policy")

\* the loop forwarding every parameter, doFootprints too
MergeParamsForwardsAll(c) ==
    IF c.status # "running" THEN c
    ELSE IF ~c.inputPolicy.present THEN Done(c, "merge")
    ELSE LET params == c.inputPolicy.params
         IN  Done([c EXCEPT
                    !.doFootprints = "doFootprints" \in DOMAIN params,
                    !.forwarded =
                        [k \in DOMAIN c.kwargs \cup DOMAIN params |->
                            IF k \in DOMAIN params THEN params[k] ELSE c.kwargs[k]]],
                  "merge")

\* self.doFootprints = False, and the loop over inputPolicy.paramNames(True)
MergeParams(c) ==
    IF c.status # "running" THEN c
    ELSE IF ~c.inputPolicy.present THEN Done(c, "merge")
    ELSE LET params == c.inputPolicy.params
             fwd    == DOMAIN params \ {"doFootprints"}
         IN  Done([c EXCEPT
                    !.doFootprints = "doFootprints" \in DOMAIN params,
                    !.forwarded =
                        [k \in DOMAIN c.kwargs \cup fwd |->
                            IF k \in fwd THEN params[k] ELSE c.kwargs[k]]],
                  "merge")

\* CameraMapper.__init__(self, policy, repositoryPath, **kwargs), called with the
\* keywords c.forwarded; baseOk: it returns
BaseInit(c, baseOk) ==
    IF c.status # "running" THEN c
    ELSE IF ~baseOk THEN [c EXCEPT !.status = "BaseError", !.baseCalled = TRUE]
    ELSE Done([c EXCEPT !.baseCalled = TRUE], "base")

\* getDatabase(kwargs["root"])
GetDatabase(c) ==
    IF c.status # "running" THEN c
    ELSE IF "root" \notin DOMAIN c.forwarded THEN [c EXCEPT !.status = "KeyError"]
    ELSE Done([c EXCEPT !.dbRoot = c.forwarded["root"]], "database")

\* self.mappings[name].keyDict.update(keys), for each name
BroadcastKeys(c) ==
    IF c.status # "running" THEN c
    ELSE Done([c EXCEPT !.keyDicts = [n \in KeyedMappings |-> keys]], "keys")

\* self.filterIdMap, and the defineFilter calls
DefineFilters(c) ==
    IF c.status # "running" THEN c
    ELSE Done([c EXCEPT !.filterIdMap = filterIdMap, !.filters = LsstFilters], "filters")

Finish(c) == IF c.status = "running" THEN [c EXCEPT !.status = "constructed"] ELSE c

\* the constructor registering the filters before it loads the policy
ConstructFiltersFirst(policyPresent, inputPolicy, kwargs, baseOk) ==
    Finish(BroadcastKeys(GetDatabase(BaseInit(MergeParams(LoadPolicy(DefineFilters(
        Called0(policyPresent, inputPolicy, kwargs)))), baseOk))))

\* the constructor, statement by statement
Construct(policyPresent, inputPolicy, kwargs, baseOk) ==
    Finish(DefineFilters(BroadcastKeys(GetDatabase(BaseInit(MergeParams(LoadPolicy(
        Called0(policyPresent, inputPolicy, kwargs))), baseOk)))))

\* the catalog with the definitions of one construction added
Defined(catalog, filters) ==
    [n \in DOMAIN catalog \cup DOMAIN filters |->
        IF n \in DOMAIN filters THEN filters[n] ELSE catalog[n]]

init ==
    /\ \E policyPresent \in BOOLEAN, inputPolicy \in InputPolicies, kwargs \in Bundles,
          baseOk \in BOOLEAN :
         LET c == Construct(policyPresent, inputPolicy, kwargs, baseOk)
         IN  /\ mapper' = c
             /\ filterCatalog' = Defined(filterCatalog, c.filters)
    /\ UNCHANGED <<idVars, calibVars, rawVars>>

InitCtor ==
    /\ mapper = NoMapper
    /\ filterCatalog = <<>>
    /\ rawRet = <<>>
    /\ calibrations = <<>>
    /\ calibRet = <<>>
    /\ dataId = <<>>
    /\ validateRet = <<>>
    /\ issued = {}
    /\ idRet = <<>>

NextCtor == init

SpecCtor == InitCtor /\ [][NextCtor]_vars

\* the last call reached the construction of the base class
BaseCalled == mapper.baseCalled

AllSteps == <<"policy", "merge", "base", "database", "keys", "filters">>

ConstructionOrder ==
    /\ ~mapper.policyPresent /\ mapper.status # "none" =>
          /\ mapper.status = "PolicyError"
          /\ mapper.events = <<>>
          /\ ~mapper.baseCalled
          /\ mapper.dbRoot = ""
          /\ mapper.keyDicts = <<>>
          /\ mapper.filters = <<>>
    /\ mapper.status = "constructed" =>
          /\ mapper.events = AllSteps
          /\ mapper.baseCalled
          /\ mapper.dbRoot = mapper.forwarded["root"]
          /\ DOMAIN mapper.keyDicts = KeyedMappings
          /\ \A n \in DOMAIN LsstFilters : filterCatalog[n] = LsstFilters[n]
    /\ \E n \in 0..Len(AllSteps) : mapper.events = SubSeq(AllSteps, 1, n)

\* a construction that fails on the policy leaves the catalog as it was
PolicyFailureKeepsCatalog ==
    mapper'.status = "PolicyError" => filterCatalog' = filterCatalog

(* C9: where the policy resource is missing the construction raises before *)
(* any other step: no base class construction, no index initialization,    *)
(* no key-type broadcast, no filter registered; a construction that        *)
(* succeeds has loaded the policy, constructed the base class, initialized *)
(* the index at the root, broadcast the key types and registered the       *)
(* filters, in this order.                                                 *)
ConstructionFailsFast == []ConstructionOrder /\ [][PolicyFailureKeepsCatalog]_vars

ConstructionFailsFastWitness ==
    /\ mapper.status = "PolicyError"
    /\ mapper.inputPolicy.present
    /\ "root" \in DOMAIN mapper.kwargs
    /\ filterCatalog = <<>>

\* what the bundle and the caller's keywords make of the forwarded keywords
ForwardedAsMerged ==
    LET params == mapper.inputPolicy.params
    IN  /\ \A k \in DOMAIN params \ {"doFootprints"} :
              k \in DOMAIN mapper.forwarded /\ mapper.forwarded[k] = params[k]
        /\ \A k \in DOMAIN mapper.kwargs \ (DOMAIN params \ {"doFootprints"}) :
              k \in DOMAIN mapper.forwarded /\ mapper.forwarded[k] = mapper.kwargs[k]
        /\ DOMAIN mapper.forwarded \subseteq DOMAIN mapper.kwargs \cup DOMAIN params
        /\ mapper.doFootprints <=>
              (mapper.inputPolicy.present /\ "doFootprints" \in DOMAIN params)

(* C10 as stated: every parameter of the bundle but doFootprints is        *)
(* forwarded with the bundle's value, doFootprints is never forwarded as a *)
(* keyword argument, and the doFootprints flag is true exactly when the    *)
(* bundle names doFootprints.                                              *)
DoFootprintsNeverForwarded ==
    BaseCalled => (ForwardedAsMerged /\ "doFootprints" \notin DOMAIN mapper.forwarded)

(* C10 as amended: every parameter of the bundle but doFootprints is       *)
(* forwarded with the bundle's value, replacing a caller keyword of the    *)
(* same name; the bundle's doFootprints is not forwarded, so the forwarded *)
(* keywords hold doFootprints only where the caller passed it, with the    *)
(* caller's value; the flag is true exactly when the bundle names          *)
(* doFootprints.                                                           *)
BundleDoFootprintsNotForwarded ==
    BaseCalled =>
        /\ ForwardedAsMerged
        /\ "doFootprints" \in DOMAIN mapper.forwarded <=>
              "doFootprints" \in DOMAIN mapper.kwargs
        /\ "doFootprints" \in DOMAIN mapper.kwargs =>
              mapper.forwarded["doFootprints"] = mapper.kwargs["doFootprints"]

BundleDoFootprintsNotForwardedWitness ==
    /\ mapper.status = "constructed"
    /\ mapper.inputPolicy.present
    /\ mapper.inputPolicy.params = ("doFootprints" :> "/a" @@ "root" :> "/b")
    /\ mapper.kwargs = ("doFootprints" :> "/b" @@ "root" :> "/a")
    /\ mapper.forwarded = ("doFootprints" :> "/b" @@ "root" :> "/b")
    /\ mapper.doFootprints

----------------------------------------------------------------------------
(* Python values.  A value is a record [t, hi, lo, s]: t is the Python type  *)
(* ("int", "str", "none"), s the text of a str, and hi * Limb + lo the      *)
(* value of an int (Python 2 int/long: unbounded; two limbs carry the      *)
(* values around 2^41 that the identifier width is about).                 *)

\* Longest visit text drawn as an input.
MaxStrLen == 2

\* Width of the low limb of an int.
LimbBits == 21

Limb == 2^LimbBits

Digits == {"0", "1", "7"}

Chars == Digits \cup {"-", " ", "x"}

DigitVal(c) == CASE c = "0" -> 0 [] c = "1" -> 1 [] c = "7" -> 7

None == [t |-> "none", hi |-> 0, lo |-> 0, s |-> <<>>]

PyStr(s) == [t |-> "str", hi |-> 0, lo |-> 0, s |-> s]

\* The int of value hi * Limb + lo, with 0 <= lo < Limb.
PyBig(hi, lo) == [t |-> "int", hi |-> hi, lo |-> lo, s |-> <<>>]

\* The int of a small value n, |n| < Limb.
PyInt(n) == IF n >= 0 THEN PyBig(0, n) ELSE PyBig(-1, Limb + n)

Texts == UNION {[1..n -> Chars] : n \in 0..MaxStrLen}

----------------------------------------------------------------------------
(* int(text) / long(text): surrounding blanks are stripped, one optional   *)
(* sign, then one or more decimal digits; anything else is a ValueError.   *)

RECURSIVE LStrip(_)
LStrip(s) == IF s # <<>> /\ Head(s) = " " THEN LStrip(Tail(s)) ELSE s

RECURSIVE RStrip(_)
RStrip(s) ==
    IF s # <<>> /\ s[Len(s)] = " " THEN RStrip(SubSeq(s, 1, Len(s) - 1)) ELSE s

Strip(s) == RStrip(LStrip(s))

Unsigned(s) == IF s # <<>> /\ Head(s) = "-" THEN Tail(s) ELSE s

AllDigits(s) == s # <<>> /\ \A i \in 1..Len(s) : s[i] \in Digits

RECURSIVE DigitsValue(_)
DigitsValue(s) ==
    IF s = <<>> THEN 0
    ELSE 10 * DigitsValue(SubSeq(s, 1, Len(s) - 1)) + DigitVal(s[Len(s)])

ParsesAsInt(s) == AllDigits(Unsigned(Strip(s)))

ParseInt(s) ==
    LET body == Strip(s)
        mag  == DigitsValue(Unsigned(body))
    IN  IF body # <<>> /\ Head(body) = "-" THEN PyInt(0 - mag) ELSE PyInt(mag)

\* int(v) succeeds
IntOk(v) ==
    CASE v.t = "int"  -> TRUE
      [] v.t = "str"  -> ParsesAsInt(v.s)
      [] OTHER        -> FALSE

\* int(v), where it succeeds
IntOf(v) == IF v.t = "str" THEN ParseInt(v.s) ELSE v

----------------------------------------------------------------------------
(* Data identifiers: dicts from key names to values.                       *)

VisitInts == {PyInt(-1), PyInt(0), PyInt(1), PyInt(7)}

VisitValues == {None} \cup VisitInts \cup {PyStr(s) : s \in Texts}

CcdValues == {PyInt(0), PyStr(<<"0">>)}

\* dict.get(key): the value, or None when the key is absent
DictGet(d, key) == IF key \in DOMAIN d THEN d[key] ELSE None

\* d[key] = value
DictSet(d, key, value) ==
    [k \in DOMAIN d \cup {key} |-> IF k = key THEN value ELSE d[k]]

WithVisit(d, v) == DictSet(d, "visit", v)

DataIds ==
    LET base == {<<>>} \cup {[k \in {"ccd"} |-> c] : c \in CcdValues}
    IN  base \cup {WithVisit(b, v) : b \in base, v \in VisitValues}

----------------------------------------------------------------------------
(* MonocamMapper.validate                                                  *)

\* the coercion is attempted
ValidateCoerces(d) ==
    LET visit == DictGet(d, "visit")
    IN  visit.t # "none" /\ visit.t # "int"

\* int(visit) raises
ValidateRaises(d) == ValidateCoerces(d) /\ ~IntOk(DictGet(d, "visit"))

\* validate with the coercion left out
ValidateResultNoCoercion(d) == d

\* validate storing into the identifier before the conversion has succeeded
ValidateResultClobbers(d) ==
    IF ValidateCoerces(d)
    THEN DictSet(d, "visit", IF ValidateRaises(d) THEN None ELSE IntOf(DictGet(d, "visit")))
    ELSE d

\* the identifier as validate leaves it
ValidateResult(d) ==
    IF ValidateCoerces(d) /\ ~ValidateRaises(d)
    THEN DictSet(d, "visit", IntOf(DictGet(d, "visit")))
    ELSE d

NoCall == [status |-> "none", before |-> <<>>]

NoId == [status |-> "none", before |-> <<>>, value |-> None]

\* the caller takes up another data identifier
NewDataId ==
    /\ \E d \in DataIds : dataId' = d
    /\ validateRet' = NoCall
    /\ UNCHANGED <<issued, idRet, calibVars, rawVars, ctorVars>>

validate ==
    /\ dataId' = ValidateResult(dataId)
    /\ validateRet' =
         [status |-> IF ValidateRaises(dataId) THEN "raised" ELSE "returned",
          before |-> dataId]
    /\ UNCHANGED <<issued, idRet, calibVars, rawVars, ctorVars>>

InitValidate ==
    /\ dataId \in DataIds
    /\ validateRet = NoCall
    /\ issued = {}
    /\ idRet = NoId
    /\ calibrations = <<>>
    /\ calibRet = <<>>
    /\ rawRet = <<>>
    /\ mapper = <<>>
    /\ filterCatalog = <<>>

NextValidate == NewDataId \/ validate

SpecValidate == InitValidate /\ [][NextValidate]_vars

----------------------------------------------------------------------------
(* MonocamMapper._computeCcdExposureId, bypass_ccdExposureId and            *)
(* bypass_ccdExposureId_bits                                               *)

Bits == 41

\* 0 <= v < 2^bits, for an int v
FitsBits(v, bits) == v.t = "int" /\ v.hi >= 0 /\ v.hi < 2^(bits - LimbBits)

\* long(v) succeeds
LongOk(v) == IntOk(v)

\* long(v), where it succeeds: the int's value widened, never cut
LongOf(v) == IntOf(v)

\* dataId['visit'] raises KeyError, or long(visit) raises
ComputeRaises(d) == "visit" \notin DOMAIN d \/ ~LongOk(d["visit"])

\* an identifier cut to its low limb
ComputeCcdExposureIdTruncated(d) == PyBig(0, LongOf(d["visit"]).lo)

computeCcdExposureId(d) == LongOf(d["visit"])

\* the largest and the first too large visit of Bits bits, and one above a limb
IdVisits ==
    { PyInt(-1), PyInt(0), PyBig(1, 0), PyBig(2^(Bits - LimbBits) - 1, Limb - 1),
      PyBig(2^(Bits - LimbBits), 0), PyStr(<<"x">>) }

IdDataIds ==
    LET base == {<<>>, [k \in {"ccd"} |-> PyInt(0)]}
    IN  base \cup {WithVisit(b, v) : b \in base, v \in IdVisits}

bypass_ccdExposureId ==
    \E d \in IdDataIds :
        IF ComputeRaises(d)
        THEN /\ idRet' = [status |-> "raised", before |-> d, value |-> None]
             /\ UNCHANGED <<issued, dataId, validateRet, calibVars, rawVars, ctorVars>>
        ELSE /\ idRet' = [status |-> "returned", before |-> d,
                          value |-> computeCcdExposureId(d)]
             /\ issued' = issued \cup {<<d, computeCcdExposureId(d)>>}
             /\ UNCHANGED <<dataId, validateRet, calibVars, rawVars, ctorVars>>

bypass_ccdExposureId_bits ==
    /\ idRet' = [status |-> "bits", before |-> <<>>, value |-> PyInt(Bits)]
    /\ UNCHANGED <<issued, dataId, validateRet, calibVars, rawVars, ctorVars>>

InitExposureId ==
    /\ dataId = <<>>
    /\ validateRet = NoCall
    /\ issued = {}
    /\ idRet = NoId
    /\ calibrations = <<>>
    /\ calibRet = <<>>
    /\ rawRet = <<>>
    /\ mapper = <<>>
    /\ filterCatalog = <<>>

NextExposureId == bypass_ccdExposureId \/ bypass_ccdExposureId_bits

SpecExposureId == InitExposureId /\ [][NextExposureId]_vars

\* the visit is an integer of at most Bits bits
VisitFits(d) == "visit" \in DOMAIN d /\ FitsBits(d["visit"], Bits)

(* C7: over the integer visits of 41 bits the exposure identifier is       *)
(* injective, is a function of the visit alone, and is itself of 41 bits.  *)
ExposureIdInjective ==
    /\ \A p \in issued : VisitFits(p[1]) => FitsBits(p[2], Bits)
    /\ \A p, q \in issued :
          (VisitFits(p[1]) /\ VisitFits(q[1])) =>
              (p[2] = q[2] <=> p[1]["visit"] = q[1]["visit"])
    /\ idRet.status = "bits" => idRet.value = PyInt(41)
    /\ (idRet.status # "bits" /\ VisitFits(idRet.before)) => idRet.status = "returned"

ExposureIdInjectiveWitness ==
    /\ <<("visit" :> PyBig(1, 0)), PyBig(1, 0)>> \in issued
    /\ <<("visit" :> PyInt(0)), PyInt(0)>> \in issued
    /\ <<("ccd" :> PyInt(0) @@ "visit" :> PyInt(0)), PyInt(0)>> \in issued
    /\ \E p \in issued : p[2] = PyBig(2^(Bits - LimbBits) - 1, Limb - 1)

----------------------------------------------------------------------------
(* Calibration frames.  An afw object is a record [layers, px, mask,       *)
(* exptime]: layers names the containers from the outermost to the pixel   *)
(* image, px the pixel data, mask the mask and variance planes ("none" for *)
(* an object without them, "fresh" for planes just allocated), exptime the *)
(* exposure time of the Calib of an Exposure, in seconds.                  *)

CalibNames == {"bias", "dark", "flat", "fringe"}

\* The python types a policy may declare for a calibration.
PyTypes == {"ImageF", "DecoratedImageU", "MaskedImageF", "ExposureF", "SourceCatalog"}

\* the characters of a type name or of a searched word
Spell(name) ==
    CASE name = "ImageF"          -> <<"I","m","a","g","e","F">>
      [] name = "DecoratedImageU" -> <<"D","e","c","o","r","a","t","e","d","I","m","a","g","e","U">>
      [] name = "MaskedImageF"    -> <<"M","a","s","k","e","d","I","m","a","g","e","F">>
      [] name = "ExposureF"       -> <<"E","x","p","o","s","u","r","e","F">>
      [] name = "SourceCatalog"   -> <<"S","o","u","r","c","e","C","a","t","a","l","o","g">>
      [] name = "MaskedImage"     -> <<"M","a","s","k","e","d","I","m","a","g","e">>
      [] name = "Image"           -> <<"I","m","a","g","e">>
      [] name = "Exposure"        -> <<"E","x","p","o","s","u","r","e">>

\* the kind of object the butler reads for a declared python type
ReadKind(name) ==
    CASE name = "ImageF"          -> "Image"
      [] name = "DecoratedImageU" -> "DecoratedImage"
      [] name = "MaskedImageF"    -> "MaskedImage"
      [] name = "ExposureF"       -> "Exposure"
      [] OTHER                    -> "Other"

\* Largest exposure time, in seconds, an Exposure item carries.
MaxExptime == 2

Exptimes == 0..MaxExptime

Pixels == {"p", "q"}

LayersOf(kind) ==
    CASE kind = "Image"          -> <<"Image">>
      [] kind = "DecoratedImage" -> <<"DecoratedImage", "Image">>
      [] kind = "MaskedImage"    -> <<"MaskedImage", "Image">>
      [] kind = "Exposure"       -> <<"Exposure", "MaskedImage", "Image">>
      [] OTHER                   -> <<"Other">>

\* the items the butler can read for a declared kind
ItemsOf(kind) ==
    { [layers |-> LayersOf(kind), px |-> p,
       mask |-> IF kind \in {"MaskedImage", "Exposure"} THEN "own" ELSE "none",
       exptime |-> e] :
        p \in Pixels, e \in IF kind = "Exposure" THEN Exptimes ELSE {0} }

NoObj == [layers |-> <<>>, px |-> "", mask |-> "none", exptime |-> 0]

KindOf(obj) == IF obj.layers = <<>> THEN "none" ELSE Head(obj.layers)

\* word in name, for two strings
Contains(word, name) ==
    LET sub == Spell(word)
        s   == Spell(name)
    IN  \E i \in 0..(Len(s) - Len(sub)) : SubSeq(s, i + 1, i + Len(sub)) = sub

\* hasattr(item, "getImage")
HasGetImage(obj) == KindOf(obj) \in {"DecoratedImage", "MaskedImage"}

getImage(obj) == [layers |-> <<"Image">>, px |-> obj.px, mask |-> "none", exptime |-> 0]

\* afwImage.makeMaskedImage(image): an Image is required
makeMaskedImageOk(obj) == KindOf(obj) = "Image"

makeMaskedImage(obj) ==
    [layers |-> <<"MaskedImage">> \o obj.layers, px |-> obj.px, mask |-> "fresh",
     exptime |-> 0]

\* afwImage.makeExposure(maskedImage): a MaskedImage is required
makeExposureOk(obj) == KindOf(obj) = "MaskedImage"

makeExposure(obj) ==
    [layers |-> <<"Exposure">> \o obj.layers, px |-> obj.px, mask |-> obj.mask,
     exptime |-> 0]

\* the dispatch testing "Image" before "MaskedImage"
DispatchImageFirst(python, item) ==
    IF Contains("Image", python)
    THEN LET image == IF HasGetImage(item) THEN getImage(item) ELSE item
         IN  IF makeMaskedImageOk(image)
             THEN [status |-> "ok", exp |-> makeExposure(makeMaskedImage(image))]
             ELSE [status |-> "TypeError", exp |-> NoObj]
    ELSE IF Contains("MaskedImage", python)
    THEN IF makeExposureOk(item)
         THEN [status |-> "ok", exp |-> makeExposure(item)]
         ELSE [status |-> "TypeError", exp |-> NoObj]
    ELSE IF Contains("Exposure", python)
    THEN [status |-> "ok", exp |-> item]
    ELSE [status |-> "RuntimeError", exp |-> NoObj]

\* the dispatch passing the item through where no type is recognised
DispatchNoError(python, item) ==
    IF Contains("MaskedImage", python)
    THEN IF makeExposureOk(item)
         THEN [status |-> "ok", exp |-> makeExposure(item)]
         ELSE [status |-> "TypeError", exp |-> NoObj]
    ELSE IF Contains("Image", python)
    THEN LET image == IF HasGetImage(item) THEN getImage(item) ELSE item
         IN  IF makeMaskedImageOk(image)
             THEN [status |-> "ok", exp |-> makeExposure(makeMaskedImage(image))]
             ELSE [status |-> "TypeError", exp |-> NoObj]
    ELSE [status |-> "ok", exp |-> item]

\* standardizeCalib, lines 154-164: the exposure built from the item
Dispatch(python, item) ==
    IF Contains("MaskedImage", python)
    THEN IF makeExposureOk(item)
         THEN [status |-> "ok", exp |-> makeExposure(item)]
         ELSE [status |-> "TypeError", exp |-> NoObj]
    ELSE IF Contains("Image", python)
    THEN LET image == IF HasGetImage(item) THEN getImage(item) ELSE item
         IN  IF makeMaskedImageOk(image)
             THEN [status |-> "ok", exp |-> makeExposure(makeMaskedImage(image))]
             ELSE [status |-> "TypeError", exp |-> NoObj]
    ELSE IF Contains("Exposure", python)
    THEN [status |-> "ok", exp |-> item]
    ELSE [status |-> "RuntimeError", exp |-> NoObj]

\* the host's _standardizeExposure(mapping, exp, dataId): the exposure it is
\* given, with detector and filter attached
standardizeExposure(python, exp, d) == exp

\* standardizeCalib(dataset, item, dataId).  hostHas is hasattr(CameraMapper,
\* "std_" + dataset); where it holds, line 167 reads the name parent, which
\* nothing defines.
standardizeCalibResult(dataset, item, d, hostHas) ==
    LET python == calibrations[dataset]
        disp   == Dispatch(python, item)
        base   == [dataset |-> dataset, python |-> python, item |-> item, dataId |-> d,
                   itemAfter |-> item, dataIdAfter |-> d, hostHas |-> hostHas,
                   exp |-> disp.exp, status |-> disp.status, hostCall |-> "none",
                   hostArg |-> NoObj, result |-> NoObj, setExptime |-> 0]
    IN  IF disp.status # "ok" THEN base
        ELSE IF hostHas THEN [base EXCEPT !.status = "NameError"]
        ELSE [base EXCEPT !.status = "returned",
                          !.hostCall = "_standardizeExposure",
                          !.hostArg = disp.exp,
                          !.result = standardizeExposure(python, disp.exp, d)]

CalibDataIds == {("visit" :> PyInt(1))}

NoCalib ==
    [op |-> "none", own |-> "none", dataset |-> "none", python |-> "", item |-> NoObj,
     dataId |-> <<>>, itemAfter |-> NoObj, dataIdAfter |-> <<>>, hostHas |-> FALSE,
     exp |-> NoObj, status |-> "none", hostCall |-> "none", hostArg |-> NoObj,
     result |-> NoObj, setExptime |-> 0]

\* the record of a call of wrapper op, registered for the calibration kind own
Called(op, own, r) ==
    [op |-> op, own |-> own, dataset |-> r.dataset, python |-> r.python, item |-> r.item,
     dataId |-> r.dataId, itemAfter |-> r.itemAfter, dataIdAfter |-> r.dataIdAfter,
     hostHas |-> r.hostHas, exp |-> r.exp, status |-> r.status, hostCall |-> r.hostCall,
     hostArg |-> r.hostArg, result |-> r.result, setExptime |-> r.setExptime]

\* the host calls standardizeCalib itself
standardizeCalib ==
    /\ \E dataset \in CalibNames, d \in CalibDataIds, hostHas \in BOOLEAN :
         \E item \in ItemsOf(ReadKind(calibrations[dataset])) :
            calibRet' = Called("standardizeCalib", dataset,
                               standardizeCalibResult(dataset, item, d, hostHas))
    /\ UNCHANGED <<calibrations, idVars, rawVars, ctorVars>>

std_bias ==
    /\ \E d \in CalibDataIds, hostHas \in BOOLEAN :
         \E item \in ItemsOf(ReadKind(calibrations["bias"])) :
            calibRet' = Called("std_bias", "bias",
                               standardizeCalibResult("bias", item, d, hostHas))
    /\ UNCHANGED <<calibrations, idVars, rawVars, ctorVars>>

\* exp.getCalib().setExptime(1.0) on what standardizeCalib returned
SetDarkExptimeSkipped(r) == r

SetDarkExptime(r) ==
    IF r.status # "returned" THEN r
    ELSE IF KindOf(r.result) # "Exposure" THEN [r EXCEPT !.status = "AttributeError"]
    ELSE [r EXCEPT !.result = [@ EXCEPT !.exptime = 1], !.setExptime = 1]

std_dark ==
    /\ \E d \in CalibDataIds, hostHas \in BOOLEAN :
         \E item \in ItemsOf(ReadKind(calibrations["dark"])) :
            calibRet' = Called("std_dark", "dark",
                               SetDarkExptime(standardizeCalibResult("dark", item, d, hostHas)))
    /\ UNCHANGED <<calibrations, idVars, rawVars, ctorVars>>

std_flat ==
    /\ \E d \in CalibDataIds, hostHas \in BOOLEAN :
         \E item \in ItemsOf(ReadKind(calibrations["flat"])) :
            calibRet' = Called("std_flat", "flat",
                               standardizeCalibResult("flat", item, d, hostHas))
    /\ UNCHANGED <<calibrations, idVars, rawVars, ctorVars>>

\* std_fringe passes the dataset name "flat"
std_fringe ==
    /\ \E d \in CalibDataIds, hostHas \in BOOLEAN :
         \E item \in ItemsOf(ReadKind(calibrations["fringe"])) :
            calibRet' = Called("std_fringe", "fringe",
                               standardizeCalibResult("flat", item, d, hostHas))
    /\ UNCHANGED <<calibrations, idVars, rawVars, ctorVars>>

InitCalib ==
    /\ calibrations \in [CalibNames -> PyTypes]
    /\ calibRet = NoCalib
    /\ dataId = <<>>
    /\ validateRet = NoCall
    /\ issued = {}
    /\ idRet = NoId
    /\ rawRet = <<>>
    /\ mapper = <<>>
    /\ filterCatalog = <<>>

NextCalib == standardizeCalib \/ std_bias \/ std_dark \/ std_flat \/ std_fringe

SpecCalib == InitCalib /\ [][NextCalib]_vars

----------------------------------------------------------------------------
(* Raw frames.  A header is a property list: a function from key names to  *)
(* values.                                                                 *)

\* the keys a file may hold: one the generator also produces, one it does not
HeaderKeys == {"CRVAL1", "EXPTIME"}

WcsKeys == {"CRVAL1", "CRPIX1"}

\* Largest value of a header key.
MaxHeaderValue == 2

HeaderValues == 1..MaxHeaderValue

\* the primary headers a raw file can hold
FileHeaders == UNION {[ks -> HeaderValues] : ks \in SUBSET HeaderKeys}

\* fakeWcs(md).getFitsMetadata(): some coordinate keys with values
FakeWcsOutputs(md) == UNION {[ks -> HeaderValues] : ks \in SUBSET WcsKeys}

\* the merge leaving the keys of the file as they are
MergeKeepsFile(md, wcs) ==
    [k \in DOMAIN md \cup DOMAIN wcs |-> IF k \in DOMAIN md THEN md[k] ELSE wcs[k]]

\* for key in wcs.names(): md.set(key, wcs.get(key))
MergeWcs(md, wcs) ==
    [k \in DOMAIN md \cup DOMAIN wcs |-> IF k \in DOMAIN wcs THEN wcs[k] ELSE md[k]]

NoRaw ==
    [op |-> "none", status |-> "none", file |-> <<>>, wcs |-> <<>>, header |-> <<>>,
     hostCall |-> "none", imageMd |-> <<>>, imagePx |-> ""]

\* bypass_raw_md on a file with primary header md, the generator giving wcs
RawMd(op, md, wcs) ==
    [NoRaw EXCEPT !.op = op, !.status = "returned", !.file = md, !.wcs = wcs,
                  !.header = MergeWcs(md, wcs)]

\* afwImage.readMetadata fails: the error goes to the caller
RawUnreadable(op) == [NoRaw EXCEPT !.op = op, !.status = "raised"]

\* bypass_raw: the decorated image of the file, given the repaired header,
\* goes to the host's std_raw
Raw(op, md, wcs, px) ==
    LET r == RawMd(op, md, wcs)
    IN  [r EXCEPT !.hostCall = "std_raw", !.imageMd = r.header, !.imagePx = px]

bypass_raw_md ==
    /\ \/ rawRet' = RawUnreadable("bypass_raw_md")
       \/ \E md \in FileHeaders :
            \E wcs \in FakeWcsOutputs(md) :
               rawRet' = RawMd("bypass_raw_md", md, wcs)
    /\ UNCHANGED <<idVars, calibVars, ctorVars>>

bypass_raw ==
    /\ \/ rawRet' = RawUnreadable("bypass_raw")
       \/ \E md \in FileHeaders, px \in Pixels :
            \E wcs \in FakeWcsOutputs(md) :
               rawRet' = Raw("bypass_raw", md, wcs, px)
    /\ UNCHANGED <<idVars, calibVars, ctorVars>>

bypass_raw_amp_md ==
    /\ \/ rawRet' = RawUnreadable("bypass_raw_amp_md")
       \/ \E md \in FileHeaders :
            \E wcs \in FakeWcsOutputs(md) :
               rawRet' = RawMd("bypass_raw_amp_md", md, wcs)
    /\ UNCHANGED <<idVars, calibVars, ctorVars>>

bypass_raw_amp ==
    /\ \/ rawRet' = RawUnreadable("bypass_raw_amp")
       \/ \E md \in FileHeaders, px \in Pixels :
            \E wcs \in FakeWcsOutputs(md) :
               rawRet' = Raw("bypass_raw_amp", md, wcs, px)
    /\ UNCHANGED <<idVars, calibVars, ctorVars>>

InitRaw ==
    /\ rawRet = NoRaw
    /\ mapper = <<>>
    /\ filterCatalog = <<>>
    /\ calibrations = <<>>
    /\ calibRet = <<>>
    /\ dataId = <<>>
    /\ validateRet = NoCall
    /\ issued = {}
    /\ idRet = NoId

NextRaw == bypass_raw_md \/ bypass_raw \/ bypass_raw_amp_md \/ bypass_raw_amp

SpecRaw == InitRaw /\ [][NextRaw]_vars

(* C8: the header bypass_raw_md and bypass_raw_amp_md return holds every   *)
(* key the coordinate generator produced, with the generator's value even  *)
(* where the file had the key, and every other key of the file with the    *)
(* file's value; bypass_raw hands the host's std_raw an image carrying     *)
(* exactly that header.                                                    *)
RawHeaderRepaired ==
    rawRet.status = "returned" =>
        /\ \A k \in DOMAIN rawRet.wcs :
              k \in DOMAIN rawRet.header /\ rawRet.header[k] = rawRet.wcs[k]
        /\ \A k \in DOMAIN rawRet.file \ DOMAIN rawRet.wcs :
              k \in DOMAIN rawRet.header /\ rawRet.header[k] = rawRet.file[k]
        /\ DOMAIN rawRet.header = DOMAIN rawRet.file \cup DOMAIN rawRet.wcs
        /\ rawRet.op \in {"bypass_raw", "bypass_raw_amp"} =>
              (rawRet.hostCall = "std_raw" /\ rawRet.imageMd = rawRet.header)
        /\ rawRet.op \in {"bypass_raw_md", "bypass_raw_amp_md"} => rawRet.hostCall = "none"

RawHeaderRepairedWitness ==
    /\ rawRet.op = "bypass_raw"
    /\ rawRet.status = "returned"
    /\ rawRet.file = ("CRVAL1" :> 1 @@ "EXPTIME" :> 2)
    /\ rawRet.imagePx = "q"
    /\ rawRet.wcs = ("CRVAL1" :> 2 @@ "CRPIX1" :> 1)
    /\ rawRet.imageMd = ("CRVAL1" :> 2 @@ "CRPIX1" :> 1 @@ "EXPTIME" :> 2)

----------------------------------------------------------------------------
(* Properties of the standardization of calibration frames.                *)

\* the item of the last call is of the representation declared for the
\* dataset standardizeCalib was called with
ItemAsDeclared == KindOf(calibRet.item) = ReadKind(calibRet.python)

ExposureLayers == <<"Exposure", "MaskedImage", "Image">>

UnrecognisedTypeRaises ==
    (calibRet.op # "none" /\ calibRet.python = "SourceCatalog") =>
        /\ calibRet.status = "RuntimeError"
        /\ calibRet.exp = NoObj
        /\ calibRet.hostCall = "none"
        /\ calibRet.result = NoObj
        /\ calibRet.setExptime = 0
        /\ calibRet.itemAfter = calibRet.item
        /\ calibRet.dataIdAfter = calibRet.dataId

UnrecognisedTypeRaisesWitness ==
    /\ calibRet.op = "std_dark"
    /\ calibRet.python = "SourceCatalog"
    /\ calibRet.status = "RuntimeError"
    /\ KindOf(calibRet.item) = "Other"

(* C3: each of std_bias, std_dark, std_flat and std_fringe calls           *)
(* standardizeCalib with the name of its own calibration kind, so that the *)
(* representation the dispatch reads is the one registered for that kind.  *)
WrapperPassesOwnName ==
    calibRet.op # "none" =>
        /\ calibRet.dataset = calibRet.own
        /\ calibRet.python = calibrations[calibRet.own]

(* C4: the exposure std_dark returns has the exposure time 1.0 whatever    *)
(* the item carried, and std_bias, std_flat and std_fringe return the      *)
(* exposure with the exposure time it had.                                 *)
DarkExptimeIsOne ==
    calibRet.status = "returned" =>
        /\ calibRet.op = "std_dark" =>
              (calibRet.result.exptime = 1 /\ calibRet.result.layers = ExposureLayers)
        /\ calibRet.op \in {"std_bias", "std_flat", "std_fringe"} =>
              /\ calibRet.setExptime = 0
              /\ calibRet.result.exptime = calibRet.hostArg.exptime
              /\ calibRet.python = "ExposureF" =>
                    calibRet.result.exptime = calibRet.item.exptime

DarkExptimeIsOneWitness ==
    /\ calibRet.op = "std_dark"
    /\ calibRet.status = "returned"
    /\ calibRet.python = "ExposureF"
    /\ calibRet.item.exptime = 2
    /\ calibRet.result.exptime = 1

----------------------------------------------------------------------------
(* Properties of validate.                                                 *)

ValidateCoercesVisit ==
    validateRet.status # "none" =>
        LET b == validateRet.before
        IN  /\ ("visit" \in DOMAIN b /\ b["visit"].t = "str" /\ AllDigits(b["visit"].s)) =>
                 /\ validateRet.status = "returned"
                 /\ dataId["visit"] = PyInt(DigitsValue(b["visit"].s))
            /\ ("visit" \in DOMAIN b /\ b["visit"].t = "str" /\ Len(b["visit"].s) > 1
                    /\ Head(b["visit"].s) = "-" /\ AllDigits(Tail(b["visit"].s))) =>
                 /\ validateRet.status = "returned"
                 /\ dataId["visit"] = PyInt(0 - DigitsValue(Tail(b["visit"].s)))
            /\ validateRet.status = "returned" =>
                 /\ DOMAIN dataId = DOMAIN b
                 /\ \A k \in DOMAIN b \ {"visit"} : dataId[k] = b[k]
                 /\ DictGet(dataId, "visit").t \in {"int", "none"}
                 /\ DictGet(b, "visit").t \in {"int", "none"} => dataId = b

\* a validate step taken on an identifier that validate has returned
Revalidate ==
    (validateRet.status = "returned" /\ validateRet'.status # "none") =>
        (validateRet'.status = "returned" /\ dataId' = dataId)

(* C5: a visit given as a decimal numeral becomes the integer it denotes   *)
(* and every other key keeps its value; validate changes nothing in an     *)
(* identifier it has already returned, in one whose visit is an integer    *)
(* and in one without a visit.                                             *)
ValidateIdempotent == []ValidateCoercesVisit /\ [][Revalidate]_vars

ValidateIdempotentWitness ==
    /\ validateRet.status = "returned"
    /\ validateRet.before = ("ccd" :> PyStr(<<"0">>) @@ "visit" :> PyStr(<<"1", "7">>))
    /\ dataId = ("ccd" :> PyStr(<<"0">>) @@ "visit" :> PyInt(17))

\* a text that is no numeral: no digit in it, or a letter in it
NonNumericText(s) ==
    (\A n \in 1..Len(s) : s[n] \notin Digits) \/ (\E n \in 1..Len(s) : s[n] = "x")

(* C6: validate returns an identifier without a visit key unchanged and    *)
(* does not raise; on a visit text that is no numeral it raises, and the   *)
(* identifier is as it was, the visit with its text.                       *)
ValidateErrors ==
    validateRet.status # "none" =>
        LET b == validateRet.before
        IN  /\ "visit" \notin DOMAIN b =>
                 (validateRet.status = "returned" /\ dataId = b)
            /\ ("visit" \in DOMAIN b /\ b["visit"].t = "str" /\ NonNumericText(b["visit"].s)) =>
                 validateRet.status = "raised"
            /\ validateRet.status = "raised" => dataId = b

ValidateErrorsWitness ==
    /\ validateRet.status = "raised"
    /\ validateRet.before = ("ccd" :> PyInt(0) @@ "visit" :> PyStr(<<"7", "x">>))
    /\ dataId = validateRet.before

====
